---- MODULE Spec2Model ----
(***************************************************************************)
(* Model of lloydsbank-pushoverd.py: Transaction construction, the merge   *)
(* of the per-account exports in get_account_information, and the cursor   *)
(* file / notification loop of push_notifications.                         *)
(*                                                                         *)
(* Text is modelled as a sequence of one-character strings.  A decimal     *)
(* number is modelled as an integer number of pence.  A CSV amount field   *)
(* is either the empty text <<>> or a one-element sequence <<n>>.          *)
(***************************************************************************)
EXTENDS Integers, Sequences, FiniteSets, TLC

\* ------------------------------------------------------------------ bounds
\* Total number of rows the bank posts over all accounts.
MaxTx == 3
\* Transaction dates are the days 1..MaxDate of January 2014.
MaxDate == 2
\* Number of program invocations (main) in one behaviour.
MaxRuns == 3

\* ------------------------------------------------------------------ text
Digit == <<"0", "1", "2", "3", "4", "5", "6", "7", "8", "9">>

Digits == {Digit[i] : i \in 1..10}

\* str.startswith
StartsWith(s, prefix) ==
    /\ Len(s) >= Len(prefix)
    /\ SubSeq(s, 1, Len(prefix)) = prefix

\* str.endswith
EndsWith(s, suffix) ==
    /\ Len(s) >= Len(suffix)
    /\ SubSeq(s, Len(s) - Len(suffix) + 1, Len(s)) = suffix

RECURSIVE LStrip(_)
LStrip(s) ==
    IF s # <<>> /\ Head(s) = " " THEN LStrip(Tail(s)) ELSE s

RECURSIVE RStrip(_)
RStrip(s) ==
    IF s # <<>> /\ s[Len(s)] = " " THEN RStrip(SubSeq(s, 1, Len(s) - 1)) ELSE s

\* str.strip() on text whose only whitespace is the blank
Strip(s) == RStrip(LStrip(s))

RECURSIVE LStripQuote(_)
LStripQuote(s) ==
    IF s # <<>> /\ Head(s) = "'" THEN LStripQuote(Tail(s)) ELSE s

RECURSIVE RStripQuote(_)
RStripQuote(s) ==
    IF s # <<>> /\ s[Len(s)] = "'"
    THEN RStripQuote(SubSeq(s, 1, Len(s) - 1))
    ELSE s

\* str.strip("'")
StripQuotes(s) == RStripQuote(LStripQuote(s))

\* date.strftime("%d%b%y").upper() for day d of January 2014
EndDate(d) ==
    <<Digit[(d \div 10) + 1], Digit[(d % 10) + 1], "J", "A", "N", "1", "4">>

\* date.strftime('%d/%m/%Y') for day d of January 2014
FormatDate(d) ==
    <<Digit[(d \div 10) + 1], Digit[(d % 10) + 1], "/", "0", "1", "/",
      "2", "0", "1", "4">>

\* datetime.strptime(text, '%d/%m/%Y') followed by date(): the day number of
\* a two-digit day of January 2014
ParseDate(text) ==
    (CHOOSE i \in 1..10 : Digit[i] = text[1]) * 10
        + (CHOOSE i \in 1..10 : Digit[i] = text[2]) - 11

\* ------------------------------------------------------------------ errors
TypeError == "TypeError"

InvalidOperation == "InvalidOperation"

AssertionError == "AssertionError"

IOError == "IOError"

SocketError == "socket.error"

NoError == "none"

\* ------------------------------------------------------------------ Transaction
TRANSACTION_TYPES ==
    [code \in {<<"B", "G", "C">>, <<"B", "P">>, <<"C", "D">>, <<"C", "H", "G">>,
               <<"C", "H", "Q">>, <<"C", "O", "M", "M">>, <<"C", "O", "R">>,
               <<"C", "P", "T">>, <<"C", "S", "H">>, <<"C", "S", "Q">>,
               <<"D", "D">>, <<"D", "E", "B">>, <<"D", "E", "P">>, <<"D", "R">>,
               <<"E", "U", "R">>, <<"F", "P", "I">>, <<"F", "P", "O">>,
               <<"I", "B">>, <<"M", "T", "U">>, <<"P", "A", "Y">>,
               <<"P", "S", "V">>, <<"S", "A", "L">>, <<"S", "O">>,
               <<"T", "F", "R">>} |->
        CASE code = <<"B", "G", "C">> -> "Bank giro credit"
          [] code = <<"B", "P">> -> "Bill payment"
          [] code = <<"C", "D">> -> "Card payment"
          [] code = <<"C", "H", "G">> -> "Charge"
          [] code = <<"C", "H", "Q">> -> "Cheque"
          [] code = <<"C", "O", "M", "M">> -> "Comission"
          [] code = <<"C", "O", "R">> -> "Correction"
          [] code = <<"C", "P", "T">> -> "Cashpoint"
          [] code = <<"C", "S", "H">> -> "Cash"
          [] code = <<"C", "S", "Q">> -> "Cash / Cheque"
          [] code = <<"D", "D">> -> "Direct Debit"
          [] code = <<"D", "E", "B">> -> "Debit card"
          [] code = <<"D", "E", "P">> -> "Deposit"
          [] code = <<"D", "R">> -> "Overdrawn balance"
          [] code = <<"E", "U", "R">> -> "Euro cheque"
          [] code = <<"F", "P", "I">> -> "Faster payments incoming"
          [] code = <<"F", "P", "O">> -> "Faster payments outgoing"
          [] code = <<"I", "B">> -> "Internet Banking"
          [] code = <<"M", "T", "U">> -> "Mobile top up"
          [] code = <<"P", "A", "Y">> -> "Payment"
          [] code = <<"P", "S", "V">> -> "Paysave"
          [] code = <<"S", "A", "L">> -> "Salary"
          [] code = <<"S", "O">> -> "Standing order"
          [] code = <<"T", "F", "R">> -> "Transfer"]

\* The result of a call that raised: no value, only the exception.
Raised(e) == [raised |-> e]

\* 'Paid by card **** **** **** %d' % four_digits, where four_digits is a
\* str: the %d conversion accepts numbers only and raises TypeError for
\* every str operand, whatever its characters.
FormatCard(four_digits) == Raised(TypeError)

\* Transaction.get_type_explanation: a label, or the exception raised.
get_type_explanation(transaction_type) ==
    IF StartsWith(transaction_type, <<"C", "D">>)
    THEN FormatCard(SubSeq(transaction_type, 4, Len(transaction_type)))
    ELSE IF transaction_type \in DOMAIN TRANSACTION_TYPES
         THEN [raised |-> NoError, value |-> TRANSACTION_TYPES[transaction_type]]
         ELSE [raised |-> NoError, value |-> ""]

\* re.match('(.*?) CD (\d{4})$', desc): the text ends in " CD dddd"; the
\* lazy group is then everything before that suffix.
CardSuffixMatches(desc) ==
    /\ Len(desc) >= 8
    /\ SubSeq(desc, Len(desc) - 7, Len(desc) - 4) = <<" ", "C", "D", " ">>
    /\ \A i \in (Len(desc) - 3)..Len(desc) : desc[i] \in Digits

\* The date stamp cut off without the strip() that follows.
StripEndDate_NoRestrip(raw_description, date) ==
    LET desc == Strip(raw_description)
        end_date == EndDate(date)
    IN  IF EndsWith(desc, end_date)
        THEN SubSeq(desc, 1, Len(desc) - Len(end_date))
        ELSE desc

\* The first half of Transaction._parse_description: strip, drop the date stamp.
StripEndDate(raw_description, date) ==
    LET desc == Strip(raw_description)
        end_date == EndDate(date)
    IN  IF EndsWith(desc, end_date)
        THEN Strip(SubSeq(desc, 1, Len(desc) - Len(end_date)))
        ELSE desc

\* Transaction._parse_description: the cleaned description and the card.
\* card = <<>> stands for None.
parse_description(raw_description, date) ==
    LET desc == StripEndDate(raw_description, date)
    IN  IF CardSuffixMatches(desc)
        THEN [description |-> Strip(SubSeq(desc, 1, Len(desc) - 8)),
              card |-> SubSeq(desc, Len(desc) - 3, Len(desc))]
        ELSE [description |-> desc, card |-> <<>>]

\* Decimal(text) of an amount field: the empty text is no number.
D(text) ==
    IF text = <<>>
    THEN Raised(InvalidOperation)
    ELSE [raised |-> NoError, value |-> text[1]]

\* The debit taken over without the minus sign.
Amount_NoNegate(fields) ==
    IF fields.debit # <<>> THEN D(fields.debit) ELSE D(fields.credit)

\* The amount of a record: minus the debit when there is one, else the credit.
Amount(fields) ==
    IF fields.debit # <<>>
    THEN [raised |-> NoError, value |-> 0 - D(fields.debit).value]
    ELSE D(fields.credit)

\* Transaction.__repr__: the text "Transaction(%s, %s, %s, %s, %s)" filled
\* with the five values, kept as the tuple of the five substituted values.
Repr(account_name, date, type_explanation, description, amount) ==
    <<account_name, FormatDate(date), type_explanation, description, amount>>

\* sha256(...).hexdigest(): a fixed-length digest, one symbol long in the
\* model, that differs for different inputs.
Sha256Hex(text) == <<text>>

\* The digest taken of the whole raw record instead of the __repr__ text.
Transaction_RawHash(account_name, fields) ==
    LET date == ParseDate(fields.date)
        amount == Amount(fields)
        balance == D(fields.balance)
        parsed == parse_description(fields.description, date)
        explanation == get_type_explanation(fields.transaction_type)
    IN  IF amount.raised # NoError THEN Raised(amount.raised)
        ELSE IF balance.raised # NoError THEN Raised(balance.raised)
        ELSE IF explanation.raised # NoError THEN Raised(explanation.raised)
        ELSE [raised |-> NoError,
              row |-> fields.row,
              account_name |-> account_name,
              date |-> date,
              transaction_type |-> fields.transaction_type,
              account_number |-> fields.account_number,
              sort_code |-> StripQuotes(fields.sort_code),
              amount |-> amount.value,
              balance |-> balance.value,
              card |-> parsed.card,
              raw_description |-> fields.description,
              description |-> parsed.description,
              type_explanation |-> explanation.value,
              hash |-> Sha256Hex(<<account_name, fields>>)]

\* Transaction.__init__: the object built, or the exception raised.  "row"
\* is the place of the record in the bank's ledger; the program does
\* not see it.
Transaction(account_name, fields) ==
    LET date == ParseDate(fields.date)
        amount == Amount(fields)
        balance == D(fields.balance)
        parsed == parse_description(fields.description, date)
        explanation == get_type_explanation(fields.transaction_type)
    IN  IF amount.raised # NoError THEN Raised(amount.raised)
        ELSE IF balance.raised # NoError THEN Raised(balance.raised)
        ELSE IF explanation.raised # NoError THEN Raised(explanation.raised)
        ELSE [raised |-> NoError,
              row |-> fields.row,
              account_name |-> account_name,
              date |-> date,
              transaction_type |-> fields.transaction_type,
              account_number |-> fields.account_number,
              sort_code |-> StripQuotes(fields.sort_code),
              amount |-> amount.value,
              balance |-> balance.value,
              card |-> parsed.card,
              raw_description |-> fields.description,
              description |-> parsed.description,
              type_explanation |-> explanation.value,
              hash |-> Sha256Hex(Repr(account_name, date, explanation.value,
                                      parsed.description, amount.value))]

\* ------------------------------------------------------------------ the bank
\* br.links(): the accounts of the overview page, in page order.
Accounts == <<"Current", "Savings">>

\* The records the bank can post: type, description, debit and credit text.
RowTemplates ==
    <<[transaction_type |-> <<"D", "E", "B">>,
       description |-> <<"T", " ", "C", "D", " ", "4", "4", "5", "5">>,
       debit |-> <<1250>>, credit |-> <<>>],
      [transaction_type |-> <<"S", "A", "L">>,
       description |-> <<"A", " ", "0", "1", "J", "A", "N", "1", "4", " ">>,
       debit |-> <<>>, credit |-> <<90000>>],
      [transaction_type |-> <<"C", "D", " ", "1", "2", "3", "4">>,
       description |-> <<"S">>,
       debit |-> <<500>>, credit |-> <<>>]>>

VARIABLES
    ledger,         \* per account, the records posted so far, oldest first
    cutoff,         \* first day the export still covers
    file,           \* the transaction log file: NoFile, or its content
    pc,             \* where the program is
    err,            \* the exception that ended the run, if any
    force,          \* push_notifications' local "force"
    transactions,   \* push_notifications' argument
    last_hash,      \* push_notifications' local "last_hash"
    i,              \* 1-based position of the for loop
    sent,           \* the requests of this run the service answered
    run,            \* facts about the run under way, for the properties
    history,        \* facts about the earlier runs, for the properties
    prevRun,        \* the run that ended last, for the properties
    record,         \* a raw record handed to Transaction on its own
    object          \* what Transaction made of that record

vars ==
    <<ledger, cutoff, file, pc, err, force, transactions, last_hash, i, sent,
      run, history, prevRun, record, object>>

\* The variables of the construction of a single record.
single == <<record, object>>

NoFile == "absent"

\* One row of the CSV export of account a: record k of its ledger.
Fields(a, k) ==
    LET r == ledger[a][k]
        tpl == RowTemplates[r.tpl]
    IN  [row |-> <<a, k>>,
         date |-> FormatDate(r.date),
         transaction_type |-> tpl.transaction_type,
         account_number |-> <<"1", "2">>,
         sort_code |-> <<"'", "3", "0", "'">>,
         debit |-> tpl.debit,
         credit |-> tpl.credit,
         balance |-> <<100 * k + a>>,
         description |-> tpl.description]

\* The rows of the export of account a, newest first: the records of its
\* ledger dated within the export window.
RECURSIVE ExportRows(_, _)
ExportRows(a, k) ==
    IF k = 0 THEN <<>>
    ELSE IF ledger[a][k].date >= cutoff
         THEN <<Fields(a, k)>> \o ExportRows(a, k - 1)
         ELSE ExportRows(a, k - 1)

\* [Transaction(account[0], row) for row in rows] over all accounts, in order.
RECURSIVE BuildAll(_, _)
BuildAll(a, acc) ==
    IF a > Len(Accounts) THEN acc
    ELSE LET rows == ExportRows(a, Len(ledger[a]))
         IN  BuildAll(a + 1,
                 acc \o [k \in 1..Len(rows) |-> Transaction(Accounts[a], rows[k])])

\* Insert t behind every element whose date is not smaller: one step of a
\* stable sort in descending date order.
RECURSIVE InsertByDate(_, _)
InsertByDate(t, s) ==
    IF s = <<>> THEN <<t>>
    ELSE IF Head(s).date >= t.date
         THEN <<Head(s)>> \o InsertByDate(t, Tail(s))
         ELSE <<t>> \o s

RECURSIVE SortFrom(_, _, _)
SortFrom(s, k, acc) ==
    IF k > Len(s) THEN acc ELSE SortFrom(s, k + 1, InsertByDate(s[k], acc))

\* sorted(transactions, key=lambda t: t.date, reverse=True): stable, equal
\* dates keep their order.
SortedByDate(s) == SortFrom(s, 1, <<>>)

\* get_account_information: the sorted list, or the exception of the first
\* record whose construction raised.
get_account_information ==
    LET built == BuildAll(1, <<>>)
        bad == {k \in 1..Len(built) : built[k].raised # NoError}
    IN  IF bad # {}
        THEN Raised(built[CHOOSE k \in bad : \A j \in bad : k <= j].raised)
        ELSE [raised |-> NoError, value |-> SortedByDate(built)]

\* ------------------------------------------------------------------ push_notifications
\* The assertion left out.
AssertNonEmpty_Off(list) == TRUE

\* assert len(transactions) > 0
AssertNonEmpty(list) == Len(list) > 0

\* The first arm lost: a transaction that matches the cursor is notified.
Branch_NoBreak(hash, last, forced) ==
    IF hash = last /\ forced = TRUE THEN "balance" ELSE "full"

\* The elif without its comparison: "elif force is True".
Branch_ElifForce(hash, last, forced) ==
    IF hash = last /\ forced = FALSE THEN "break"
    ELSE IF forced = TRUE THEN "balance"
    ELSE "full"

\* Which arm of the if / elif / else the loop takes for a transaction.
Branch(hash, last, forced) ==
    IF hash = last /\ forced = FALSE THEN "break"
    ELSE IF hash = last /\ forced = TRUE THEN "balance"
    ELSE "full"

\* The flag left as it is: "force = False" missing from the else arm.
ForceAfter_Keep(branch, forced) == forced

\* The flag after the arm: the else arm clears it.
ForceAfter(branch, forced) == IF branch = "full" THEN FALSE ELSE forced

\* The break behind the send left out.
StopAfterSend_Never(hash, last, forced) == FALSE

\* "Send only one notification if forced": the break behind the send.
StopAfterSend(hash, last, forced) == hash = last /\ forced = TRUE

\* "Account balance: (pound)%s" % transaction.balance
BalanceMessage(t) == [kind |-> "balance", body |-> <<t.balance>>]

\* "%s %s %s\nAccount balance: (pound)%s" % (amount, explanation, description, balance)
FullMessage(t) ==
    [kind |-> "full",
     body |-> <<t.amount, t.type_explanation, t.description, t.balance>>]

\* What conn.request / conn.getresponse can do: the service accepts the
\* message, the service answers with an error status (getresponse returns
\* the response and the program does not look at it), or the connection
\* fails and an exception is raised.
SendOutcomes == {"accepted", "rejected", "raised"}

\* file.write(data) at offset pos
WriteAt(content, pos, data) ==
    SubSeq(content, 1, pos) \o data
        \o SubSeq(content, pos + Len(data) + 1, Len(content))

\* file.truncate() at offset pos
Truncate(content, pos) == SubSeq(content, 1, pos)

\* The fingerprint of the last transaction of the list instead of the first.
NewCursor_Last(list) == list[Len(list)].hash

\* transactions[0].hash: what is written to the file behind the loop
NewCursor(list) == list[1].hash

\* The write without the truncate().
StoreCursor_NoTruncate(content, hash) == WriteAt(content, 0, hash)

\* seek(0); write(hash); truncate()
StoreCursor(content, hash) ==
    Truncate(WriteAt(content, 0, hash), Len(hash))

\* ------------------------------------------------------------------ state machine
TotalPosted == Len(ledger[1]) + Len(ledger[2])

NoRun ==
    [forced |-> FALSE, fileAtStart |-> NoFile, rejected |-> 0,
     reads |-> 0, writes |-> 0]

\* No run has ended yet.
NoPrev == [outcome |-> "none"]

\* No record, no object.
Nothing == [raised |-> "nothing"]

\* A file somebody left behind: an old digest and a newline.
StaleContent == <<<<"old">>, "\n">>

Init ==
    /\ ledger = [a \in 1..Len(Accounts) |-> <<>>]
    /\ cutoff = 1
    /\ file \in {NoFile, <<>>, StaleContent}
    /\ pc = "idle"
    /\ err = NoError
    /\ force = FALSE
    /\ transactions = <<>>
    /\ last_hash = <<>>
    /\ i = 1
    /\ sent = <<>>
    /\ run = NoRun
    /\ history = [runs |-> 0, notified |-> {}, seen |-> {},
                  forced |-> FALSE, aborted |-> FALSE]
    /\ prevRun = NoPrev
    /\ record = Nothing
    /\ object = Nothing

\* The latest day account a has a record of (the first day of the window
\* when it has none).
LatestDay(a) ==
    IF ledger[a] = <<>> THEN cutoff
    ELSE IF ledger[a][Len(ledger[a])].date > cutoff
         THEN ledger[a][Len(ledger[a])].date
         ELSE cutoff

\* The bank posts a record to an account.  An account's statement is in
\* date order, so the record is dated no earlier than the account's latest,
\* and a record dated before the window would never be exported.
Post(a, tpl, d) ==
    /\ pc = "idle"
    /\ TotalPosted < MaxTx
    /\ d >= LatestDay(a)
    /\ ledger' = [ledger EXCEPT ![a] = Append(@, [tpl |-> tpl, date |-> d])]
    /\ UNCHANGED <<cutoff, file, pc, err, force, transactions, last_hash, i,
                   sent, run, history, prevRun, single>>

\* The export window moves on: the records of the oldest day drop out.
AdvanceWindow ==
    /\ pc = "idle"
    /\ cutoff < MaxDate
    /\ cutoff' = cutoff + 1
    /\ UNCHANGED <<ledger, file, pc, err, force, transactions, last_hash, i,
                   sent, run, history, prevRun, single>>

\* main up to the call of push_notifications, with --force or without.
Main(f) ==
    /\ pc = "idle"
    /\ history.runs < MaxRuns
    /\ LET got == get_account_information
       IN  IF got.raised # NoError
           THEN /\ pc' = "error"
                /\ err' = got.raised
                /\ transactions' = <<>>
           ELSE /\ pc' = "push"
                /\ err' = NoError
                /\ transactions' = got.value
    /\ force' = f
    /\ last_hash' = <<>>
    /\ i' = 1
    /\ sent' = <<>>
    /\ run' = [forced |-> f, fileAtStart |-> file, rejected |-> 0,
                reads |-> 0, writes |-> 0]
    /\ UNCHANGED <<ledger, cutoff, file, history, prevRun, single>>

\* push_notifications up to the loop: the assertion, open(..., 'r+'), read().
Open ==
    /\ pc = "push"
    /\ IF ~AssertNonEmpty(transactions)
       THEN /\ pc' = "error"
            /\ err' = AssertionError
            /\ UNCHANGED <<last_hash, run>>
       ELSE IF file = NoFile
       THEN /\ pc' = "error"
            /\ err' = IOError
            /\ UNCHANGED <<last_hash, run>>
       ELSE /\ pc' = "loop"
            /\ last_hash' = file
            /\ run' = [run EXCEPT !.reads = @ + 1]
            /\ UNCHANGED err
    /\ UNCHANGED <<ledger, cutoff, file, force, transactions, i, sent,
                   history, prevRun, single>>

\* The file written although the send raised, as a "finally" would.
AbortedFile_Stored(content, list) == StoreCursor(content, NewCursor(list))

\* An exception of the send leaves push_notifications ahead of the write:
\* the file keeps its content.
AbortedFile(content, list) == content

\* The loop position stays: the same transaction comes again.
NextIndex_Stuck(k) == k

\* "for transaction in transactions": the loop goes on to the next one.
NextIndex(k) == k + 1

\* One turn of the for loop: the end of the list, a break, or a send.
LoopStep ==
    /\ pc = "loop"
    /\ IF i > Len(transactions)
       THEN /\ pc' = "write"
            /\ UNCHANGED <<err, force, i, sent, run, file>>
       ELSE LET t == transactions[i]
                b == Branch(t.hash, last_hash, force)
                f == ForceAfter(b, force)
            IN  IF b = "break"
                THEN /\ pc' = "write"
                     /\ UNCHANGED <<err, force, i, sent, run, file>>
                ELSE \E outcome \in SendOutcomes :
                        /\ force' = f
                        /\ IF outcome = "raised"
                           THEN /\ pc' = "error"
                                /\ err' = SocketError
                                /\ file' = AbortedFile(file, transactions)
                                /\ UNCHANGED <<i, sent, run>>
                           ELSE /\ sent' = Append(sent,
                                     [row |-> t.row,
                                      title |-> t.account_name,
                                      message |-> IF b = "balance"
                                                  THEN BalanceMessage(t)
                                                  ELSE FullMessage(t)])
                                /\ run' = IF outcome = "rejected" /\ run.rejected = 0
                                          THEN [run EXCEPT !.rejected = Len(sent) + 1]
                                          ELSE run
                                /\ IF StopAfterSend(t.hash, last_hash, f)
                                   THEN pc' = "write" /\ UNCHANGED i
                                   ELSE pc' = "loop" /\ i' = NextIndex(i)
                                /\ UNCHANGED <<err, file>>
    /\ UNCHANGED <<ledger, cutoff, transactions, last_hash, history,
                   prevRun, single>>

\* Behind the loop: seek(0), write(transactions[0].hash), truncate(), close().
WriteCursor ==
    /\ pc = "write"
    /\ IF transactions = <<>>
       THEN /\ pc' = "error"
            /\ err' = "IndexError"
            /\ UNCHANGED <<file, run>>
       ELSE /\ file' = StoreCursor(file, NewCursor(transactions))
            /\ run' = [run EXCEPT !.writes = @ + 1]
            /\ pc' = "done"
            /\ UNCHANGED err
    /\ UNCHANGED <<ledger, cutoff, force, transactions, last_hash, i, sent,
                   history, prevRun, single>>

Rows(list) == {list[k].row : k \in 1..Len(list)}

\* The process ends and its locals are gone; the next invocation starts
\* from "idle".
EndRun ==
    /\ pc \in {"done", "error"}
    /\ pc' = "idle"
    /\ err' = NoError
    /\ force' = FALSE
    /\ transactions' = <<>>
    /\ last_hash' = <<>>
    /\ i' = 1
    /\ sent' = <<>>
    /\ run' = NoRun
    /\ history' =
         [runs |-> history.runs + 1,
          notified |-> history.notified \cup Rows(sent),
          seen |-> IF pc = "done"
                   THEN history.seen \cup Rows(transactions)
                   ELSE history.seen,
          forced |-> history.forced \/ (run.forced /\ pc = "done"),
          aborted |-> history.aborted \/ (pc = "error" /\ sent # <<>>)]
    /\ UNCHANGED <<ledger, cutoff, file, single>>

Exit == EndRun /\ UNCHANGED prevRun

\* The notification whose send raised: that of the transaction the loop
\* stands at, balance-only when it matches the cursor.
FailedSend ==
    LET t == transactions[i]
    IN  [row |-> t.row,
         title |-> t.account_name,
         message |-> IF t.hash = last_hash
                     THEN BalanceMessage(t)
                     ELSE FullMessage(t)]

\* What is remembered of a run when it ends.
Summary ==
    IF pc = "done"
    THEN [outcome |-> "done", list |-> transactions]
    ELSE IF err = SocketError
    THEN [outcome |-> "aborted", list |-> transactions,
          forced |-> run.forced, cursor |-> run.fileAtStart,
          sent |-> sent, failed |-> FailedSend]
    ELSE [outcome |-> "error"]

\* The process ends, and the run is remembered for the next one.
ExitRecorded == EndRun /\ prevRun' = Summary

Next ==
    \/ \E a \in 1..Len(Accounts), tpl \in 1..Len(RowTemplates), d \in 1..MaxDate :
          Post(a, tpl, d)
    \/ AdvanceWindow
    \/ \E f \in BOOLEAN : Main(f)
    \/ Open
    \/ LoopStep
    \/ WriteCursor
    \/ Exit

Spec == Init /\ [][Next]_vars

NextRetry ==
    \/ \E a \in 1..Len(Accounts), tpl \in 1..Len(RowTemplates), d \in 1..MaxDate :
          Post(a, tpl, d)
    \/ AdvanceWindow
    \/ \E f \in BOOLEAN : Main(f)
    \/ Open
    \/ LoopStep
    \/ WriteCursor
    \/ ExitRecorded

\* The same program, with the run that ended last kept in prevRun.
SpecRetry == Init /\ [][NextRetry]_vars

\* ------------------------------------------------------------------ one record
\* Transaction types handed to Transaction on its own: the codes of the
\* table, unknown codes, the empty type, and types that begin with "CD".
SingleTypes ==
    DOMAIN TRANSACTION_TYPES
        \cup {<<"Z", "Z", "Z">>, <<"s", "o">>, <<>>, <<"C">>,
              <<"C", "D", " ", "1", "2", "3", "4">>, <<"C", "D", "X">>}

\* Raw descriptions: blanks around the text, the date stamp of day 1 (also
\* in lower case and followed by a blank), card suffixes that match and
\* that do not, and both together.
SingleDescriptions ==
    {<<"T">>,
     <<" ", "T", " ">>,
     <<"T", " ", "0", "1", "J", "A", "N", "1", "4">>,
     <<"T", " ", "0", "1", "J", "A", "N", "1", "4", " ">>,
     <<"T", " ", "0", "1", "j", "a", "n", "1", "4">>,
     <<"0", "1", "J", "A", "N", "1", "4">>,
     <<"T", " ", "C", "D", " ", "4", "4", "5", "5">>,
     <<"T", " ", " ", "C", "D", " ", "4", "4", "5", "5">>,
     <<"T", " ", "C", "D", " ", "4", "4", "5">>,
     <<"T", " ", "C", "D", " ", "4", "4", "5", "5", "5">>,
     <<"T", " ", "C", "D", " ", "1", "1", "1", "1", " ", "C", "D", " ",
       "4", "4", "5", "5">>,
     <<"T", " ", "C", "D", " ", "4", "4", "5", "5", " ",
       "0", "1", "J", "A", "N", "1", "4">>}

SingleDebits == {<<>>, <<1250>>}

SingleCredits == {<<>>, <<1250>>, <<90000>>}

SingleBalances == {<<100>>, <<200>>}

SingleAccountNumbers == {<<"1", "2">>, <<"3", "4">>}

SingleSortCodes == {<<"'", "3", "0", "'">>, <<"3", "1">>}

\* The raw records: an account name and the fields of one CSV row.
SingleRecords ==
    {[account_name |-> Accounts[a],
      fields |-> [row |-> <<0, 0>>,
                  date |-> FormatDate(d),
                  transaction_type |-> t,
                  account_number |-> an,
                  sort_code |-> sc,
                  debit |-> db,
                  credit |-> cr,
                  balance |-> b,
                  description |-> desc]] :
        a \in 1..Len(Accounts), d \in 1..MaxDate, t \in SingleTypes,
        an \in SingleAccountNumbers, sc \in SingleSortCodes,
        db \in SingleDebits, cr \in SingleCredits, b \in SingleBalances,
        desc \in SingleDescriptions}

SingleInit ==
    /\ ledger = [a \in 1..Len(Accounts) |-> <<>>]
    /\ cutoff = 1
    /\ file = <<>>
    /\ pc = "record"
    /\ err = NoError
    /\ force = FALSE
    /\ transactions = <<>>
    /\ last_hash = <<>>
    /\ i = 1
    /\ sent = <<>>
    /\ run = NoRun
    /\ history = [runs |-> 0, notified |-> {}, seen |-> {},
                  forced |-> FALSE, aborted |-> FALSE]
    /\ prevRun = NoPrev
    /\ record \in SingleRecords
    /\ object = Nothing

\* Transaction(account_name, row) for the record.
Construct ==
    /\ pc = "record"
    /\ pc' = "object"
    /\ object' = Transaction(record.account_name, record.fields)
    /\ UNCHANGED <<ledger, cutoff, file, err, force, transactions, last_hash,
                   i, sent, run, history, prevRun, record>>

SingleNext == Construct

SpecSingle == SingleInit /\ [][SingleNext]_vars

\* ------------------------------------------------------------------ properties
\* The positions of list whose fingerprint equals the text cursor.
Matches(list, cursor) == {k \in 1..Len(list) : list[k].hash = cursor}

FirstMatch(list, cursor) ==
    CHOOSE k \in Matches(list, cursor) : \A j \in Matches(list, cursor) : k <= j

\* The j-th request of the run is the full notification of transaction t.
IsFullFor(j, t) ==
    /\ sent[j].row = t.row
    /\ sent[j].title = t.account_name
    /\ sent[j].message.kind = "full"
    /\ sent[j].message.body =
         <<t.amount, t.type_explanation, t.description, t.balance>>

\* The j-th request of the run is the balance-only notification of t.
IsBalanceFor(j, t) ==
    /\ sent[j].row = t.row
    /\ sent[j].title = t.account_name
    /\ sent[j].message.kind = "balance"
    /\ sent[j].message.body = <<t.balance>>

\* C1: a completed non-forced run whose cursor, as read at the start, is the
\* fingerprint of a transaction of the list, first at position k (counted
\* from 0), has sent exactly k notifications, the full notification of each
\* of transactions[0..k-1] in list order, and the file holds the fingerprint
\* of transactions[0]; for k = 0 nothing is sent and the file is unchanged.
C1_NewBeforeCursorNotified ==
    (/\ pc = "done"
     /\ ~run.forced
     /\ Matches(transactions, run.fileAtStart) # {})
    => LET m == FirstMatch(transactions, run.fileAtStart)
       IN  /\ Len(sent) = m - 1
           /\ \A j \in 1..(m - 1) : IsFullFor(j, transactions[j])
           /\ file = transactions[1].hash
           /\ (m = 1 => file = run.fileAtStart)

C1_Witness ==
    /\ pc = "done"
    /\ ~run.forced
    /\ Matches(transactions, run.fileAtStart) # {}
    /\ FirstMatch(transactions, run.fileAtStart) = 2
    /\ Len(transactions) = 3
    /\ Len(sent) = 1

\* C6: a completed run, forced or not, whose cursor equals the fingerprint of
\* no transaction of the list has sent one full notification per transaction,
\* in list order, no balance-only notification, and the file holds the
\* fingerprint of transactions[0].
C6_NoMatchNotifiesAll ==
    (/\ pc = "done"
     /\ Matches(transactions, run.fileAtStart) = {})
    => /\ Len(sent) = Len(transactions)
       /\ \A j \in 1..Len(sent) : IsFullFor(j, transactions[j])
       /\ file = transactions[1].hash

C6_Witness ==
    /\ pc = "done"
    /\ run.forced
    /\ run.fileAtStart = <<>>
    /\ Len(transactions) = 3
    /\ Len(sent) = 3

\* C7: a completed forced run whose cursor equals the fingerprint of
\* transactions[0] has sent exactly one notification, the balance-only
\* message of transactions[0], and the file content is what it was.
C7_ForcedSteadyState ==
    (/\ pc = "done"
     /\ run.forced
     /\ run.fileAtStart = transactions[1].hash)
    => /\ Len(sent) = 1
       /\ IsBalanceFor(1, transactions[1])
       /\ file = run.fileAtStart

C7_Witness ==
    /\ pc = "done"
    /\ run.forced
    /\ run.fileAtStart = transactions[1].hash
    /\ Len(transactions) >= 2
    /\ sent # <<>>

\* C8: after a run that completes, the whole content of the file is the
\* fingerprint of transactions[0], whatever the file held before.
C8_FileIsNewestFingerprint ==
    pc = "done" => file = transactions[1].hash

C8_Witness ==
    /\ pc = "done"
    /\ Len(run.fileAtStart) > Len(transactions[1].hash)
    /\ file # run.fileAtStart

\* C9: push_notifications called with an empty list ends in an error, has
\* sent nothing and has left the file as it was.
C9_EmptyListFails ==
    (/\ transactions = <<>>
     /\ pc \in {"loop", "write", "done", "error"}
     /\ err # TypeError)
    => /\ pc = "error"
       /\ err = AssertionError
       /\ sent = <<>>
       /\ file = run.fileAtStart

C9_Witness ==
    /\ pc = "error"
    /\ err = AssertionError
    /\ transactions = <<>>
    /\ history.seen # {}
    /\ sent = <<>>
    /\ file = run.fileAtStart

\* C2: as long as every earlier run that sent something completed and none
\* was forced, a non-forced run sends no notification for a transaction that
\* an earlier run sent a notification for.
C2_NeverNotifiedTwice ==
    (/\ ~history.forced
     /\ ~history.aborted
     /\ ~run.forced)
    => Rows(sent) \cap history.notified = {}

C2_Witness ==
    /\ pc = "done"
    /\ ~history.forced
    /\ ~history.aborted
    /\ ~run.forced
    /\ history.runs = 2
    /\ Len(sent) = 1
    /\ Cardinality(history.notified) = 2
    /\ history.notified \subseteq Rows(transactions)

\* C3: in a completed run that follows completed runs only, every
\* transaction of the list that was in no earlier run's list has received
\* its full notification.
C3_EveryNewTransactionNotified ==
    (/\ pc = "done"
     /\ ~history.aborted)
    => \A k \in 1..Len(transactions) :
          transactions[k].row \notin history.seen
          => \E j \in 1..Len(sent) : IsFullFor(j, transactions[k])

\* C4: a send that fails, by an exception or by an error answer of the
\* service, ends the run at that send with the file as it was at the start.
C4_SendFailureAborts ==
    /\ err = SocketError
       => (pc = "error" /\ file = run.fileAtStart)
    /\ run.rejected # 0
       => /\ pc = "error"
          /\ Len(sent) = run.rejected
          /\ file = run.fileAtStart

\* C5: a run over a non-empty list that finds no file goes on with the
\* empty cursor, does not fail for the missing file, and when it completes
\* the file exists and holds the fingerprint of transactions[0].
C5_MissingFileTolerated ==
    (/\ run.fileAtStart = NoFile
     /\ transactions # <<>>
     /\ pc \in {"loop", "write", "done", "error"})
    => /\ err # IOError
       /\ last_hash = <<>>
       /\ (pc = "done" => file = transactions[1].hash)

\* A transaction type "CD " followed by four digits.
IsCardType(transaction_type) ==
    /\ Len(transaction_type) = 7
    /\ SubSeq(transaction_type, 1, 3) = <<"C", "D", " ">>
    /\ \A k \in 4..7 : transaction_type[k] \in Digits

\* C10: every exported record whose type is "CD " and four digits d is
\* constructed without an exception, and its type explanation is
\* "Paid by card **** **** **** d".
C10_CardTypeExplained ==
    pc # "idle"
    => \A a \in 1..Len(Accounts) :
          LET rows == ExportRows(a, Len(ledger[a]))
          IN  \A k \in 1..Len(rows) :
                 IsCardType(rows[k].transaction_type)
                 => /\ Transaction(Accounts[a], rows[k]).raised = NoError
                    /\ get_type_explanation(rows[k].transaction_type) =
                         [raised |-> NoError,
                          value |-> <<"Paid by card **** **** **** ",
                                      SubSeq(rows[k].transaction_type, 4, 7)>>]

\* C12: the amount of a constructed Transaction is minus the Debit Amount
\* when that field is not empty and the Credit Amount otherwise; with both
\* fields empty the construction raises.
C12_AmountSign ==
    pc = "object"
    => LET f == record.fields
       IN  /\ (object.raised = NoError /\ f.debit # <<>>)
              => object.amount = 0 - f.debit[1]
           /\ (object.raised = NoError /\ f.debit = <<>>)
              => object.amount = f.credit[1]
           /\ (f.debit = <<>> /\ f.credit = <<>>)
              => object.raised = InvalidOperation

C12_Witness ==
    /\ pc = "object"
    /\ object.raised = NoError
    /\ record.fields.debit = <<1250>>
    /\ record.fields.credit = <<90000>>
    /\ object.amount = 0 - 1250

\* The text s without the blanks at its two ends.
Trimmed(s) ==
    LET inked == {k \in 1..Len(s) : s[k] # " "}
    IN  IF inked = {} THEN <<>>
        ELSE SubSeq(s, CHOOSE k \in inked : \A j \in inked : k <= j,
                       CHOOSE k \in inked : \A j \in inked : k >= j)

\* The text s is the text x followed by the text y.
IsJoin(s, x, y) == s = x \o y

\* The cleaned description and the card that the raw text and the day call
\* for: trim, drop a trailing stamp of the day and trim again, then split
\* off a trailing " CD dddd".
Cleaned(raw, day) ==
    LET stamp == <<Digit[(day \div 10) + 1], Digit[(day % 10) + 1],
                   "J", "A", "N", "1", "4">>
        t == Trimmed(raw)
        stamped == \E k \in 0..Len(t) : IsJoin(t, SubSeq(t, 1, k), stamp)
        u == IF stamped THEN Trimmed(SubSeq(t, 1, Len(t) - 7)) ELSE t
        cuts == {k \in 1..Len(u) :
                    /\ Len(u) - k = 8
                    /\ SubSeq(u, k + 1, k + 4) = <<" ", "C", "D", " ">>
                    /\ \A j \in (k + 5)..Len(u) : u[j] \in Digits}
    IN  IF cuts # {}
        THEN LET k == CHOOSE c \in cuts : TRUE
             IN  [description |-> Trimmed(SubSeq(u, 1, k)),
                  card |-> SubSeq(u, k + 5, Len(u))]
        ELSE [description |-> u, card |-> <<>>]

\* The day a record was issued for, read off its date text.
DayOf(rec) == CHOOSE d \in 1..31 : FormatDate(d) = rec.fields.date

\* C13: the description of a constructed Transaction is the raw text
\* trimmed, without a trailing upper-case DDMmmYY stamp of its own date
\* (trimmed again), and, when what remains is "<text> CD <4 digits>", it is
\* <text> trimmed with those digits as the card; otherwise the card is absent.
C13_DescriptionCleanup ==
    (pc = "object" /\ object.raised = NoError)
    => LET c == Cleaned(record.fields.description, DayOf(record))
       IN  /\ object.description = c.description
           /\ object.card = c.card

C13_Witness ==
    /\ pc = "object"
    /\ object.raised = NoError
    /\ record.fields.description =
         <<"T", " ", "C", "D", " ", "4", "4", "5", "5", " ",
           "0", "1", "J", "A", "N", "1", "4">>
    /\ object.description = <<"T">>
    /\ object.card = <<"4", "4", "5", "5">>

\* C16: a record whose type does not begin with "CD " and whose other fields
\* are well-formed is constructed without an exception, and its type
\* explanation is the label of the table for a code of the table (the bare
\* "CD" included) and the empty text otherwise.
C16_NonCardTypesExplained ==
    (/\ pc = "object"
     /\ ~StartsWith(record.fields.transaction_type, <<"C", "D", " ">>)
     /\ (record.fields.debit # <<>> \/ record.fields.credit # <<>>))
    => /\ object.raised = NoError
       /\ object.type_explanation =
            IF record.fields.transaction_type \in DOMAIN TRANSACTION_TYPES
            THEN TRANSACTION_TYPES[record.fields.transaction_type]
            ELSE ""

\* C11: records with the same account name that agree on date, type
\* explanation, cleaned description and amount have the same fingerprint,
\* whatever their Balance, Account Number and Sort Code, and whatever raw
\* type, raw description and amount fields these values come from.
C11_FingerprintOfFiveValues ==
    (pc = "object" /\ object.raised = NoError)
    => \A t \in SingleTypes :
          get_type_explanation(t) =
              [raised |-> NoError, value |-> object.type_explanation]
          => \A desc \in SingleDescriptions :
                parse_description(desc, object.date).description
                    = object.description
                => \A db \in SingleDebits, cr \in SingleCredits :
                      Amount([debit |-> db, credit |-> cr])
                          = [raised |-> NoError, value |-> object.amount]
                      => \A b \in SingleBalances,
                            an \in SingleAccountNumbers,
                            sc \in SingleSortCodes :
                            LET other ==
                                  Transaction(record.account_name,
                                      [record.fields EXCEPT
                                          !.transaction_type = t,
                                          !.description = desc,
                                          !.debit = db,
                                          !.credit = cr,
                                          !.balance = b,
                                          !.account_number = an,
                                          !.sort_code = sc])
                            IN  /\ other.raised = NoError
                                /\ other.hash = object.hash

C11_Witness ==
    /\ pc = "object"
    /\ object.raised = NoError
    /\ record.fields.balance = <<100>>
    /\ record.fields.description = <<" ", "T", " ">>
    /\ record.fields.transaction_type = <<"Z", "Z", "Z">>
    /\ object.hash =
         Transaction(record.account_name,
             [record.fields EXCEPT !.balance = <<200>>,
                                   !.account_number = <<"3", "4">>,
                                   !.sort_code = <<"3", "1">>,
                                   !.transaction_type = <<"s", "o">>,
                                   !.description = <<"T">>]).hash

\* C14: a balance-only notification is sent only in a forced run whose
\* newest transaction matches the cursor, and it is then the only
\* notification of the run; a run that sends a full notification sends full
\* notifications only, for the transactions ahead of the first one that
\* matches the cursor, and none for that one.
C14_BalanceOnlyWhenForcedSteady ==
    /\ \A j \in 1..Len(sent) :
          sent[j].message.kind = "balance"
          => /\ run.forced
             /\ transactions[1].hash = run.fileAtStart
             /\ Len(sent) = 1
             /\ IsBalanceFor(1, transactions[1])
    /\ (\E j \in 1..Len(sent) : sent[j].message.kind = "full")
       => /\ Len(sent) <= Len(transactions)
          /\ \A j \in 1..Len(sent) :
                /\ IsFullFor(j, transactions[j])
                /\ transactions[j].hash # run.fileAtStart
          /\ (pc \in {"write", "done"}
                /\ Matches(transactions, run.fileAtStart) # {})
             => Len(sent) = FirstMatch(transactions, run.fileAtStart) - 1

C14_Witness ==
    /\ pc = "done"
    /\ run.forced
    /\ Len(sent) = 2
    /\ sent[1].message.kind = "full"
    /\ Len(transactions) = 3
    /\ transactions[3].hash = run.fileAtStart

\* C15: in a run the file is read once, ahead of every send, and written at
\* most once, behind the last send; the j-th send is for the j-th
\* transaction of the list, no transaction is sent twice, and until the
\* write the file holds what it held when the run began.
C15_ReadOnceWriteOnce ==
    /\ run.reads <= 1
    /\ run.writes <= 1
    /\ pc \in {"loop", "write", "done"} => run.reads = 1
    /\ sent # <<>> => run.reads = 1
    /\ run.writes = 1 => pc = "done"
    /\ pc \in {"push", "loop", "write", "error"} => file = run.fileAtStart
    /\ Len(sent) <= Len(transactions)
    /\ \A j \in 1..Len(sent) : sent[j].row = transactions[j].row
    /\ \A j, k \in 1..Len(sent) : j # k => sent[j].row # sent[k].row

C15_Witness ==
    /\ pc = "done"
    /\ run.reads = 1
    /\ run.writes = 1
    /\ Len(sent) = 2
    /\ Len(transactions) = 3
    /\ file # run.fileAtStart

\* The notifications a run over list sends when the file held cursor at its
\* start and every send is accepted: read off the list, not off the loop.
Planned(list, cursor, forced) ==
    LET m == IF Matches(list, cursor) = {} THEN 0 ELSE FirstMatch(list, cursor)
        full(j) == [row |-> list[j].row,
                    title |-> list[j].account_name,
                    message |-> FullMessage(list[j])]
    IN  IF m = 1
        THEN IF forced
             THEN <<[row |-> list[1].row,
                     title |-> list[1].account_name,
                     message |-> BalanceMessage(list[1])]>>
             ELSE <<>>
        ELSE [j \in 1..(IF m = 0 THEN Len(list) ELSE m - 1) |-> full(j)]

\* The run before this one was aborted by an exception of a send, and this
\* one runs over the same list with the same force value.
RetryOfAborted ==
    /\ prevRun.outcome = "aborted"
    /\ transactions = prevRun.list
    /\ run.forced = prevRun.forced

\* C17: a run aborted by a failed send leaves the cursor where it was; the
\* next run over the same list with the same force value, once completed,
\* has sent again what the aborted run had sent, then the notification that
\* failed, then the rest up to the same cursor boundary, nothing of the
\* later part twice, and has stored the fingerprint of transactions[0].
C17_RetryResendsAndCompletes ==
    /\ (prevRun.outcome = "aborted" /\ pc = "idle")
           => file = prevRun.cursor
    /\ (RetryOfAborted /\ pc \in {"loop", "write", "done", "error"})
           => run.fileAtStart = prevRun.cursor
    /\ (RetryOfAborted /\ pc = "done") =>
          LET n == Len(prevRun.sent)
          IN  /\ Len(sent) >= n + 1
              /\ SubSeq(sent, 1, n) = prevRun.sent
              /\ sent[n + 1] = prevRun.failed
              /\ sent = Planned(transactions, run.fileAtStart, run.forced)
              /\ \A j \in (n + 1)..Len(sent) :
                     \A k \in 1..n : sent[j].row # prevRun.sent[k].row
              /\ file = transactions[1].hash

C17_Witness ==
    /\ RetryOfAborted
    /\ pc = "done"
    /\ prevRun.sent # <<>>
    /\ Len(sent) >= Len(prevRun.sent) + 2
    /\ file # run.fileAtStart

\* C18: after a run that completed, a non-forced run over the same list
\* finds transactions[0] at the cursor: it sends nothing, does not fail, and
\* the file holds what it held when the run started.
C18_SecondRunIdempotent ==
    (/\ prevRun.outcome = "done"
     /\ pc \in {"loop", "write", "done", "error"}
     /\ transactions = prevRun.list
     /\ ~run.forced)
        => /\ sent = <<>>
           /\ pc # "error"
           /\ file = run.fileAtStart
           /\ file = transactions[1].hash

C18_Witness ==
    /\ prevRun.outcome = "done"
    /\ pc = "done"
    /\ transactions = prevRun.list
    /\ ~run.forced
    /\ Len(transactions) >= 2
    /\ history.notified # {}
    /\ run.writes = 1

====
